---- MODULE Spec2Model ----
(***************************************************************************)
(* The browser-side session machine of the analytics dashboard: the        *)
(* ApiClient of frontend/src/lib/api.ts (both class definitions the file   *)
(* holds) and of unnamed/part_005, with the browser storage, the refresh   *)
(* timer, the axios interceptors and the pages that drive them.            *)
(*                                                                         *)
(* One behaviour is one browser tab: a sequence of page loads (each one    *)
(* constructs a new ApiClient), API method calls, HTTP responses, timer    *)
(* expiries and clock ticks.  A handler runs to its next await, so every    *)
(* action is one handler run from the event that starts it to the point    *)
(* where it yields.                                                        *)
(***************************************************************************)
EXTENDS Integers, FiniteSets, Sequences, TLC

VARIABLES
    rev,        \* which ApiClient definition the page bundles
    storage,    \* localStorage, sessionStorage and the cookie jar
    client,     \* the fields of the ApiClient instance and its window timers
    path,       \* window.location / router pathname
    unloading,  \* window.location has been assigned: the document is leaving
    calls,      \* per API method: is the promise it returned still pending
    inflight,   \* per API method: HTTP requests sent and not yet answered
    loginTimer, \* the 6 s timeout promise of login() is still to fire
    cpUser,     \* changePassword (first definition): the user it captured
    last,       \* what the step just taken did: the response interceptor's
                \* run and the promise it settled
    now,        \* Date.now()
    budget,     \* what is left of the exploration bounds
    dashboard   \* the Dashboard page's state and its load in progress

vars == <<rev, storage, client, path, unloading, calls, inflight, loginTimer, cpUser,
          last, now, budget, dashboard>>

----------------------------------------------------------------------------
(* Bounds of the exploration *)

MaxInflight == 1
MaxTicks == 1
MaxWidgets == 2

(* Program constants *)

ThrottleDelay == 30000

InactivityThreshold == 10 * 60 * 1000
MaxAgeSecond == 24 * 60 * 60 * 1000
MaxAgeThird == 7 * 24 * 60 * 60 * 1000

Revs == {"api_ts_1", "api_ts_2", "part_005"}

Methods == {"login", "refreshToken", "changePassword", "getCurrentUser",
            "getMenuItems"}

Url(m) ==
    CASE m = "login" -> "/auth/login"
      [] m = "refreshToken" -> "/auth/refresh"
      [] m = "changePassword" -> "/auth/change-password"
      [] m = "getCurrentUser" -> "/auth/me"
      [] m = "getDashboardLayout" -> "/api/dashboard"
      [] m = "getWidgetData" -> "/api/dashboard/widget/data"
      [] OTHER -> "/api/menu"

\* sessionStorage.getItem("browser_session_id"): null, or the id a page load
\* generated
NoSid == "null"
Sids == {"session_a", "session_b"}

UserAgent == "ua_this"
UserAgents == {"ua_this", "ua_other"}

Users == [must_change_password : BOOLEAN]

NoResponse == 0
Statuses == {200, 401, 404, 500, NoResponse}

\* An HTTP outcome: the status (NoResponse: timeout or network error, the
\* error carries a message and no response), whether the error body has
\* `error` and `detail`, and for a 2xx body the user's flag and `success`.
Responses ==
    [status : {200}, error : {FALSE}, detail : {FALSE},
     mcp : BOOLEAN, success : BOOLEAN]
    \cup
    [status : {404}, error : BOOLEAN, detail : BOOLEAN,
     mcp : {FALSE}, success : {FALSE}]
    \cup
    [status : {401, 500, NoResponse}, error : {FALSE}, detail : {FALSE},
     mcp : {FALSE}, success : {FALSE}]

\* The Dashboard page: its useState values, the two requests of the first
\* Promise.all and, per widget, the getWidgetData request and its answer.
WidgetIds == 1 .. MaxWidgets

NoResult == [state |-> "none", status |-> NoResponse, success |-> FALSE]

NoDashboard ==
    [stage |-> "idle", loading |-> TRUE, widgets |-> {}, widgetData |-> {},
     top |-> [m \in {"getMenuItems", "getDashboardLayout"} |-> "none"],
     layout |-> {},
     results |-> [wid \in WidgetIds |-> NoResult]]

----------------------------------------------------------------------------
(* The mutable world a handler works on: storage, client fields and the     *)
(* location, in one record, so that helpers can be composed as the code     *)
(* composes its calls.                                                      *)

World == [s |-> storage, c |-> client, path |-> path, unloading |-> unloading]

HasTimers(r) == r # "api_ts_1"
HasTracker(r) == r = "api_ts_2"

\* sessionStorage.clear()
ClearSession(s) ==
    [s EXCEPT !.ss_auth_token = "", !.ss_browser_session_id = NoSid,
              !.ss_browser_closing = FALSE]

\* A clearRefreshTimer that drops its references without clearTimeout and
\* without stop()
clearRefreshTimer_forget(w) ==
    [w EXCEPT !.c.refreshTimer = "null", !.c.activityTracker = FALSE,
              !.c.lastTrigger = 0]

clearRefreshTimer(w) ==
    LET c1 == IF w.c.refreshTimer # "null"
              THEN [w.c EXCEPT !.refreshTimer = "null",
                               !.timers = IF w.c.refreshTimer = "pending"
                                          THEN @ - 1 ELSE @]
              ELSE w.c
        c2 == IF HasTracker(rev) /\ c1.activityTracker
              THEN [c1 EXCEPT !.activityTracker = FALSE, !.listeners = @ - 1,
                              !.lastTrigger = 0]
              ELSE c1
    IN  [w EXCEPT !.c = c2]

\* A removeToken that leaves the `user` key of localStorage
removeToken_keepsUser(w) ==
    LET w1 == [w EXCEPT !.s.ck_auth_token = "", !.s.ss_auth_token = "",
                        !.s.ls_auth_token = "", !.s.ls_token_metadata = {}]
        w2 == clearRefreshTimer(w1)
    IN  [w2 EXCEPT !.s = ClearSession(w2.s)]

removeToken(w) ==
    IF rev = "api_ts_1"
    THEN [w EXCEPT !.s.ck_auth_token = "", !.s.ls_auth_token = "",
                   !.s.ls_user = {}]
    ELSE LET w1 == [w EXCEPT !.s.ck_auth_token = "", !.s.ss_auth_token = "",
                             !.s.ls_auth_token = "", !.s.ls_user = {},
                             !.s.ls_token_metadata = {}]
             w2 == clearRefreshTimer(w1)
         IN  [w2 EXCEPT !.s = ClearSession(w2.s)]

\* The first truthy of a || b || c
Or3(a, b, c) == IF a # "" THEN a ELSE IF b # "" THEN b ELSE c

StoredToken(s) ==
    CASE rev = "api_ts_1" -> Or3(s.ck_auth_token, s.ls_auth_token, "")
      [] rev = "api_ts_2" ->
            Or3(s.ss_auth_token, s.ck_auth_token, s.ls_auth_token)
      [] OTHER -> Or3(s.ls_auth_token, s.ss_auth_token, s.ck_auth_token)

MaxAge == IF rev = "part_005" THEN MaxAgeThird ELSE MaxAgeSecond

\* A metadata check without the age test
MetadataRejects_noAge(s) ==
    /\ rev # "api_ts_1"
    /\ \E md \in s.ls_token_metadata :
          /\ md.parses
          /\ md.userAgent # UserAgent

\* Whether getToken's metadata check rejects the stored token.  A
\* token_metadata string JSON.parse throws on (md.parses false) lands in the
\* catch block, which keeps the token.
MetadataRejects(s) ==
    /\ rev # "api_ts_1"
    /\ \E md \in s.ls_token_metadata :
          /\ md.parses
          /\ \/ md.userAgent # UserAgent
             \/ /\ rev = "part_005"
                /\ md.browserSessionId # NoSid
                /\ s.ss_browser_session_id # NoSid
                /\ md.browserSessionId # s.ss_browser_session_id
             \/ now - md.issued > MaxAge

\* getToken: the token it returns ("" for null) ...
getTokenValue(w) ==
    IF StoredToken(w.s) = "" \/ MetadataRejects(w.s) THEN ""
    ELSE StoredToken(w.s)

\* ... and the world it leaves
getToken(w) ==
    IF StoredToken(w.s) # "" /\ MetadataRejects(w.s) THEN removeToken(w) ELSE w

isAuthenticated(w) == getTokenValue(w) # ""

setToken(w, token) ==
    IF rev = "api_ts_1"
    THEN [w EXCEPT !.s.ck_auth_token = token, !.s.ls_auth_token = token]
    ELSE [w EXCEPT !.s.ck_auth_token = token, !.s.ss_auth_token = token,
                   !.s.ls_auth_token = token,
                   !.s.ls_token_metadata =
                       {[parses |-> TRUE, issued |-> now, userAgent |-> UserAgent,
                         browserSessionId |->
                            IF rev = "part_005"
                            THEN w.s.ss_browser_session_id ELSE NoSid]}]

setUser(w, user) == [w EXCEPT !.s.ls_user = {user}]

getUser(s) == s.ls_user

setupTokenRefresh(w) ==
    IF ~HasTimers(rev) THEN w
    ELSE
    LET w1 == clearRefreshTimer(w)
    IN  \* isAuthenticated() && getToken(): a token getToken accepts leaves
        \* the world as it is, one it rejects is removed by the first call
        IF isAuthenticated(w1)
        THEN LET c1 == IF HasTracker(rev) /\ ~w1.c.activityTracker
                       THEN [w1.c EXCEPT !.activityTracker = TRUE,
                                         !.listeners = @ + 1,
                                         !.lastTrigger = 0]
                       ELSE w1.c
                 c2 == IF rev = "part_005" \/ c1.refreshTimer = "null"
                       THEN [c1 EXCEPT !.refreshTimer = "pending",
                                       !.timers = @ + 1]
                       ELSE c1
             IN  [w1 EXCEPT !.c = c2]
        ELSE getToken(w1)

\* window.location.href = to
Redirect(w, to) == [w EXCEPT !.path = to, !.unloading = TRUE]

\* router.push(to)
Push(w, to) == [w EXCEPT !.path = to]

\* App: the effect that sends a user whose flag is set to /change-password.
\* Its dependency list is [router]: it runs after the mount and after each
\* route change, not when localStorage changes.
AppEffect(w) ==
    IF /\ \E user \in getUser(w.s) : user.must_change_password
       /\ w.path # "/change-password"
    THEN Push(w, "/change-password")
    ELSE w

\* ChangePasswordPage: the mount effect
ChangePasswordPageEffect(w) ==
    IF w.path # "/change-password" THEN w
    ELSE IF getUser(w.s) = {} THEN Push(w, "/login")
    ELSE IF \E user \in getUser(w.s) : ~user.must_change_password
    THEN Push(w, "/dashboard")
    ELSE w

\* The effects of a mount or a route change, run as part of it: React runs
\* them right after the commit, ahead of any response or timer.  A route
\* the page effect pushes is one App's effect leaves alone.
RunEffects(w) == ChangePasswordPageEffect(AppEffect(w))

\* router.push(to) with the effects the route change runs
Navigate(w, to) == RunEffects(Push(w, to))

----------------------------------------------------------------------------
(* The state after construction *)

FreshClient ==
    [refreshTimer |-> "null", timers |-> 0, activityTracker |-> FALSE,
     listeners |-> 0, lastTrigger |-> 0,
     lastActivity |-> IF HasTracker(rev) THEN now ELSE 0,
     isRefreshing |-> FALSE]

EmptyStorage ==
    [ls_auth_token |-> "", ss_auth_token |-> "", ck_auth_token |-> "",
     ls_user |-> {}, ls_token_metadata |-> {},
     ss_browser_session_id |-> NoSid, ss_browser_closing |-> FALSE]

\* What a step did.  event: "respond" (a response or failure reached the
\* interceptor), "timer" (the refresh timer ran its callback), "load" (a
\* new document), "throw" (a promise settled without a response), "call" (a
\* request went through the request interceptor), "logout", "none".
\* For "respond": the request's url, the status and body, the toasts the
\* interceptor raised, whether it ran removeToken, what it returned
\* (outcome), the storage and location it left (cleaned, path), and what
\* became of the method's promise (settled).  For "timer": what the
\* callback did ("refresh", "skip", "recheck").  For "call" and "logout":
\* whether the step ran removeToken (removed).
NoLast ==
    [event |-> "none", url |-> "", status |-> 0, error |-> FALSE,
     detail |-> FALSE, success |-> FALSE, toasts |-> 0, removed |-> FALSE,
     outcome |-> "none", cleaned |-> FALSE, path |-> "", settled |-> "none",
     timer |-> "none"]

\* The step settled the promise of the method for `url` without a response
Settled(url, how) ==
    [NoLast EXCEPT !.event = "throw", !.url = url, !.settled = how]


----------------------------------------------------------------------------
(* The axios interceptors *)

\* Request interceptor: reads the token (getToken may remove a rejected
\* one); the second definition also counts the request as user activity.
RequestInterceptor(w) ==
    LET w1 == getToken(w)
    IN  IF rev = "api_ts_2" THEN [w1 EXCEPT !.c.lastActivity = now] ELSE w1

\* A 401 branch that also leaves the refresh call's 401 alone
Exempt401_refresh(m) ==
    \/ Url(m) = "/auth/login"
    \/ Url(m) = "/auth/refresh"
    \/ rev = "part_005" /\ Url(m) = "/auth/change-password"

\* The 401 branch: does the interceptor leave this URL's 401 to the caller?
\* originalUrl.includes("/auth/login"), and in part_005 also
\* originalUrl.includes("/auth/change-password")
Exempt401(m) ==
    \/ Url(m) = "/auth/login"
    \/ rev = "part_005" /\ Url(m) = "/auth/change-password"

\* A 401 branch that rejects wherever it applies
Outcome401_reject(m) == "reject"

\* What the 401 branch returns: new Promise(() => {}) or Promise.reject(error)
Outcome401(m) ==
    IF rev = "part_005" /\ Exempt401(m) THEN "reject" ELSE "hang"

\* A 4xx branch that forgets the `!detail` test
ErrorToasts_anyError(r) ==
    IF r.status >= 500 THEN 1
    ELSE IF r.status >= 400 /\ r.status < 500
         THEN (IF r.error THEN 1 ELSE 0)
    ELSE 1

\* The number of toast.error calls of the non-401 branches
ErrorToasts(r) ==
    IF r.status >= 500 THEN 1
    ELSE IF r.status >= 400 /\ r.status < 500
         THEN (IF r.error /\ ~r.detail THEN 1 ELSE 0)
    ELSE IF r.status # NoResponse /\ r.error THEN 1
    ELSE 1  \* error.message: an axios error always carries one

\* Response interceptor: the world it leaves, what becomes of the request's
\* promise, and the toasts it raised
ResponseInterceptor(w, m, r) ==
    IF r.status = 200
    THEN [w |-> w, outcome |-> "resolve", toasts |-> 0, removed |-> FALSE]
    ELSE IF r.status = 401
    THEN IF Exempt401(m)
         THEN [w |-> w, outcome |-> Outcome401(m), toasts |-> 0,
               removed |-> FALSE]
         ELSE [w |-> Redirect(removeToken(w), "/login"),
               outcome |-> Outcome401(m), toasts |-> 0, removed |-> TRUE]
    ELSE [w |-> w, outcome |-> "reject", toasts |-> ErrorToasts(r),
          removed |-> FALSE]

----------------------------------------------------------------------------
(* Construction *)

\* part_005 setupBrowserCloseDetection, on page load: a session id is
\* generated when sessionStorage has none, and a browser_closing flag left by
\* the previous document's beforeunload handler clears the authentication.
FreshSid(s) ==
    CHOOSE sid \in Sids :
        \A md \in s.ls_token_metadata : md.browserSessionId # sid

setupBrowserCloseDetection(w) ==
    LET w1 == IF w.s.ss_browser_session_id = NoSid
              THEN [w EXCEPT !.s.ss_browser_session_id = FreshSid(w.s)]
              ELSE w
    IN  IF w1.s.ss_browser_closing
        THEN [removeToken(w1) EXCEPT !.s.ss_browser_closing = FALSE]
        ELSE w1

Constructor(w) ==
    CASE rev = "api_ts_1" -> w
      [] rev = "api_ts_2" -> setupTokenRefresh(w)
      [] OTHER -> setupBrowserCloseDetection(setupTokenRefresh(w))

Idle == [m \in Methods |-> "idle"]
Zero == [m \in Methods |-> 0]

\* What a previous visit may have left in the browser: nothing, or a session
\* (the sessionStorage of a new tab is empty)
LeftSession(u, ua) ==
    [EmptyStorage EXCEPT
        !.ls_auth_token = "tok", !.ck_auth_token = "tok", !.ls_user = {u},
        !.ls_token_metadata =
            IF rev = "api_ts_1" THEN {}
            ELSE {[parses |-> TRUE, issued |-> 0, userAgent |-> ua,
                   browserSessionId |->
                       IF rev = "part_005" THEN "session_a" ELSE NoSid]}]

InitStorages ==
    {EmptyStorage} \cup {LeftSession(u, ua) : u \in Users, ua \in UserAgents}

Paths == {"/login", "/change-password", "/dashboard"}

Commit(w) ==
    /\ storage' = w.s
    /\ client' = w.c
    /\ path' = w.path
    /\ unloading' = w.unloading

\* Date.now() when the page loads: lastTrigger starts at 0, the epoch, which
\* lies more than throttleDelay before any page load.
StartTime == ThrottleDelay + 1

Init ==
    /\ rev \in Revs
    /\ now = StartTime
    /\ budget = [ticks |-> MaxTicks]
    /\ \E s0 \in InitStorages, p \in Paths :
          LET w == RunEffects(Constructor([s |-> s0, c |-> FreshClient,
                                           path |-> p, unloading |-> FALSE]))
          IN  /\ storage = w.s
              /\ client = w.c
              /\ path = w.path
    /\ unloading = FALSE
    /\ calls = Idle
    /\ inflight = Zero
    /\ loginTimer = FALSE
    /\ cpUser = {}
    /\ last = NoLast
    /\ dashboard = NoDashboard


----------------------------------------------------------------------------
(* API method calls *)

InFlight == inflight["login"] + inflight["refreshToken"]
            + inflight["changePassword"] + inflight["getCurrentUser"]
            + inflight["getMenuItems"]

\* The model follows one call per method at a time, and MaxInflight requests
CanCall(m) ==
    /\ ~unloading
    /\ calls[m] = "idle"
    /\ inflight[m] = 0
    /\ InFlight < MaxInflight

Issue(m) ==
    /\ calls' = [calls EXCEPT ![m] = "pending"]
    /\ inflight' = [inflight EXCEPT ![m] = @ + 1]
    /\ last' = [NoLast EXCEPT
                   !.event = "call", !.url = Url(m),
                   !.removed = StoredToken(storage) # ""
                               /\ MetadataRejects(storage)]

\* login(credentials): starts the timeout promise (not in the first
\* definition) and posts /auth/login
Login ==
    /\ CanCall("login")
    /\ Commit(RequestInterceptor(World))
    /\ Issue("login")
    /\ loginTimer' = (rev # "api_ts_1")
    /\ UNCHANGED <<rev, dashboard, cpUser, now, budget>>

\* The change-password form is submitted: changePassword(old, new) throws
\* before any request when no user is stored
changePasswordThrows_never(s) == FALSE

\* changePassword(): `if (!user) throw new Error(...)` before the POST
changePasswordThrows(s) == getUser(s) = {}

ChangePassword ==
    /\ path = "/change-password"
    /\ CanCall("changePassword")
    /\ IF changePasswordThrows(storage)
       THEN /\ last' = Settled("/auth/change-password", "rejected")
            /\ UNCHANGED <<storage, client, path, unloading, calls, inflight, cpUser>>
       ELSE /\ Commit(RequestInterceptor(World))
            /\ Issue("changePassword")
            /\ cpUser' = getUser(storage)
    /\ UNCHANGED <<rev, dashboard, loginTimer, now, budget>>

\* getCurrentUser(), getMenuItems(): a plain request
Call(m) ==
    /\ m \in {"getCurrentUser", "getMenuItems"}
    /\ CanCall(m)
    /\ Commit(RequestInterceptor(World))
    /\ Issue(m)
    /\ UNCHANGED <<rev, dashboard, loginTimer, cpUser, now, budget>>

logout ==
    /\ ~unloading
    /\ Commit(Redirect(removeToken(World), "/login"))
    /\ last' = [NoLast EXCEPT !.event = "logout", !.removed = TRUE]
    /\ UNCHANGED <<rev, dashboard, calls, inflight, loginTimer, cpUser, now, budget>>

----------------------------------------------------------------------------
(* Token refresh *)

\* A refreshToken() without the isRefreshing guard
refreshToken_unguarded(w) ==
    [w |-> RequestInterceptor([w EXCEPT !.c.isRefreshing = TRUE]),
     started |-> TRUE, did |-> "refresh"]

\* refreshToken() up to its await: [w, started, did]
refreshToken(w) ==
    IF w.c.isRefreshing
    THEN [w |-> w, started |-> FALSE, did |-> "skip"]
    ELSE [w |-> RequestInterceptor([w EXCEPT !.c.isRefreshing = TRUE]),
          started |-> TRUE, did |-> "refresh"]

\* A check that refreshes whatever the user's activity
checkAndRefreshToken_always(w) == refreshToken(w)

\* A check that schedules nothing for an inactive user
checkAndRefreshToken_noRecheck(w) ==
    IF now - w.c.lastActivity > InactivityThreshold
    THEN [w |-> w, started |-> FALSE, did |-> "recheck"]
    ELSE refreshToken(w)

\* checkAndRefreshToken(): an inactive user gets the next check scheduled,
\* an active one a refresh
checkAndRefreshToken(w) ==
    IF now - w.c.lastActivity > InactivityThreshold
    THEN [w |-> setupTokenRefresh(w), started |-> FALSE, did |-> "recheck"]
    ELSE refreshToken(w)

\* The refresh timer expires and runs its callback.  Timers carry no
\* deadline here: one may expire at any moment of a document's life except
\* while the document is being replaced, which takes no time on the scale of
\* the 20 minute (3 hour) delay.
TimerFires ==
    /\ ~unloading
    /\ client.timers > 0
    /\ LET c0 == [client EXCEPT
                     !.timers = @ - 1,
                     !.refreshTimer =
                        IF @ = "pending" /\ client.timers = 1
                        THEN "fired" ELSE @]
           w0 == [World EXCEPT !.c = c0]
           res == IF rev = "api_ts_2" THEN checkAndRefreshToken(w0)
                  ELSE refreshToken(w0)
       IN  /\ Commit(res.w)
           /\ IF res.started
              THEN /\ calls' = [calls EXCEPT !["refreshToken"] = "pending"]
                   /\ inflight' = [inflight EXCEPT !["refreshToken"] = @ + 1]
              ELSE UNCHANGED <<calls, inflight>>
           /\ last' = [NoLast EXCEPT !.event = "timer", !.timer = res.did]
    /\ UNCHANGED <<rev, dashboard, loginTimer, cpUser, now, budget>>

----------------------------------------------------------------------------
(* What each method does once its request has settled *)

\* A login whose continuation runs although the timeout has rejected it
afterLogin_afterTimeout(w, r, outcome) ==
    IF outcome = "resolve"
    THEN LET w1 == setUser(setToken(w, "tok"),
                           [must_change_password |-> r.mcp])
             w2 == setupTokenRefresh(w1)
         IN  [w |-> IF r.mcp THEN Redirect(w2, "/change-password") ELSE w2,
              call |-> "resolved"]
    ELSE IF outcome = "reject" THEN [w |-> w, call |-> "rejected"]
    ELSE [w |-> w, call |-> "pending"]

\* A login that stores the session and arms no refresh timer
afterLogin_noTimer(w, r, outcome) ==
    IF calls["login"] # "pending" THEN [w |-> w, call |-> "none"]
    ELSE IF outcome = "resolve"
    THEN LET w1 == setUser(setToken(w, "tok"),
                           [must_change_password |-> r.mcp])
         IN  [w |-> IF r.mcp THEN Redirect(w1, "/change-password") ELSE w1,
              call |-> "resolved"]
    ELSE IF outcome = "reject" THEN [w |-> w, call |-> "rejected"]
    ELSE [w |-> w, call |-> "pending"]

\* [w, call]: the world and the state of the method's promise
afterLogin(w, r, outcome) ==
    IF calls["login"] # "pending" THEN [w |-> w, call |-> "none"]
    ELSE IF outcome = "resolve"
    THEN LET w1 == setUser(setToken(w, "tok"),
                           [must_change_password |-> r.mcp])
             w2 == setupTokenRefresh(w1)
         IN  [w |-> IF r.mcp THEN Redirect(w2, "/change-password") ELSE w2,
              call |-> "resolved"]
    ELSE IF outcome = "reject" THEN [w |-> w, call |-> "rejected"]
    ELSE [w |-> w, call |-> "pending"]

\* A refresh whose failure schedules the next attempt
afterRefresh_rearm(w, r, outcome) ==
    IF outcome = "resolve"
    THEN LET w1 == setUser(setToken(w, "tok"),
                           [must_change_password |-> r.mcp])
             w2 == IF rev = "api_ts_2"
                   THEN [w1 EXCEPT !.c.lastActivity = now] ELSE w1
             w3 == setupTokenRefresh(w2)
         IN  [w |-> [w3 EXCEPT !.c.isRefreshing = FALSE], call |-> "resolved"]
    ELSE IF outcome = "reject"
    THEN [w |-> [setupTokenRefresh(w) EXCEPT !.c.isRefreshing = FALSE],
          call |-> "resolved"]
    ELSE [w |-> w, call |-> "pending"]

afterRefresh(w, r, outcome) ==
    IF outcome = "resolve"
    THEN LET w1 == setUser(setToken(w, "tok"),
                           [must_change_password |-> r.mcp])
             w2 == IF rev = "api_ts_2"
                   THEN [w1 EXCEPT !.c.lastActivity = now] ELSE w1
             w3 == setupTokenRefresh(w2)
         IN  [w |-> [w3 EXCEPT !.c.isRefreshing = FALSE], call |-> "resolved"]
    ELSE IF outcome = "reject"
    THEN LET w1 == Redirect(removeToken(w), "/login")
         IN  [w |-> [w1 EXCEPT !.c.isRefreshing = FALSE], call |-> "resolved"]
    ELSE [w |-> w, call |-> "pending"]

\* changePassword and the page's handleSubmit that awaits it
afterChangePassword(w, r, outcome) ==
    IF outcome = "resolve"
    THEN LET currentUser == CHOOSE u \in cpUser : TRUE
             w1 == IF rev = "api_ts_1" /\ r.success
                   THEN setUser(w, [currentUser EXCEPT
                                       !.must_change_password = FALSE])
                   ELSE w
         IN  [w |-> Navigate(w1, "/dashboard"), call |-> "resolved"]
    ELSE IF outcome = "reject" THEN [w |-> w, call |-> "rejected"]
    ELSE [w |-> w, call |-> "pending"]

afterGetCurrentUser(w, r, outcome) ==
    IF outcome = "resolve"
    THEN [w |-> setUser(w, [must_change_password |-> r.mcp]),
          call |-> "resolved"]
    ELSE IF outcome = "reject" THEN [w |-> w, call |-> "rejected"]
    ELSE [w |-> w, call |-> "pending"]

afterGetMenuItems(w, r, outcome) ==
    [w |-> w,
     call |-> CASE outcome = "resolve" -> "resolved"
                [] outcome = "reject" -> "rejected"
                [] OTHER -> "pending"]

After(m, w, r, outcome) ==
    CASE m = "login" -> afterLogin(w, r, outcome)
      [] m = "refreshToken" -> afterRefresh(w, r, outcome)
      [] m = "changePassword" -> afterChangePassword(w, r, outcome)
      [] m = "getCurrentUser" -> afterGetCurrentUser(w, r, outcome)
      [] OTHER -> afterGetMenuItems(w, r, outcome)

\* The responses method m is tried with: the body fields the method reads,
\* and every shape of error body on one URL (the interceptor reads the body
\* the same way for all of them), the backend's {detail} on the others
ResponsesFor(m) ==
    {r \in Responses :
        /\ r.mcp => m \in {"login", "refreshToken", "getCurrentUser"}
        /\ r.success => m = "changePassword"
        /\ r.status = 404 /\ m # "getMenuItems" => r.detail /\ ~r.error}

\* None of the session keys is left in any store
Cleaned(s) ==
    /\ s.ls_auth_token = "" /\ s.ss_auth_token = "" /\ s.ck_auth_token = ""
    /\ s.ls_user = {} /\ s.ls_token_metadata = {}

\* The request of method m is answered (or fails): the response interceptor
\* runs, then the method's continuation
Respond(m, r) ==
    /\ inflight[m] > 0
    /\ r \in ResponsesFor(m)
    /\ LET i == ResponseInterceptor(World, m, r)
           a == After(m, i.w, r, i.outcome)
       IN  /\ Commit(a.w)
           /\ calls' = [calls EXCEPT ![m] =
                           IF a.call = "pending" THEN "pending" ELSE "idle"]
           /\ last' = [event |-> "respond", url |-> Url(m),
                       status |-> r.status, error |-> r.error,
                       detail |-> r.detail, success |-> r.success,
                       toasts |-> i.toasts, removed |-> i.removed,
                       outcome |-> i.outcome, cleaned |-> Cleaned(i.w.s),
                       path |-> i.w.path, settled |-> a.call,
                       timer |-> "none"]
           /\ cpUser' = IF m = "changePassword" /\ a.call # "pending"
                        THEN {} ELSE cpUser
    /\ inflight' = [inflight EXCEPT ![m] = @ - 1]
    /\ UNCHANGED <<rev, dashboard, loginTimer, now, budget>>

\* The timeout promise of login() rejects; Promise.race has settled already
\* when the request's promise did
LoginTimeout ==
    /\ loginTimer
    /\ loginTimer' = FALSE
    /\ calls' = [calls EXCEPT !["login"] = "idle"]
    /\ last' = IF calls["login"] = "pending"
               THEN Settled("/auth/login", "rejected") ELSE NoLast
    /\ UNCHANGED <<rev, dashboard, storage, client, path, unloading, inflight, cpUser, now, budget>>


----------------------------------------------------------------------------
(* The page and the clock *)

\* The tab loads a document (a redirect through window.location, a reload):
\* the old instance, its timers and its requests are gone and a new
\* ApiClient is constructed.  sessionStorage survives.  In part_005 the old
\* document's beforeunload handler has set browser_closing, and its 100 ms
\* timer may or may not have removed it again before the document went.
PageLoad ==
    /\ \E closing \in (IF rev = "part_005" THEN BOOLEAN ELSE {FALSE}) :
          LET s0 == [storage EXCEPT !.ss_browser_closing = closing]
              w == Constructor([s |-> s0, c |-> FreshClient, path |-> path,
                                unloading |-> FALSE])
          IN  Commit(RunEffects(w))
    /\ calls' = Idle
    /\ inflight' = Zero
    /\ loginTimer' = FALSE
    /\ cpUser' = {}
    /\ last' = [NoLast EXCEPT !.event = "load"]
    /\ UNCHANGED <<rev, dashboard, now, budget>>

\* part_005: the 30 s interval runs checkBrowserAlive when authenticated; a
\* tab that gets no pong and has lost its session id logs out
checkBrowserAlive ==
    /\ rev = "part_005"
    /\ ~unloading
    /\ \E pong \in BOOLEAN :
          LET w1 == getToken(World)
          IN  IF /\ isAuthenticated(World)
                 /\ ~pong
                 /\ w1.s.ss_browser_session_id = NoSid
              THEN Commit(Redirect(removeToken(w1), "/login"))
              ELSE Commit(w1)
    /\ last' = NoLast
    /\ UNCHANGED <<rev, dashboard, calls, inflight, loginTimer, cpUser, now, budget>>

\* ActivityTracker.handleActivity: a window event reaches a started tracker
ThrottleOpen_atDelay(c) == now - c.lastTrigger >= ThrottleDelay

\* handleActivity's throttle: `now - this.lastTrigger > this.throttleDelay`
ThrottleOpen(c) == now - c.lastTrigger > ThrottleDelay

handleActivity ==
    /\ ~unloading
    /\ client.listeners > 0
    /\ ThrottleOpen(client)
    /\ client' = [client EXCEPT !.lastTrigger = now, !.lastActivity = now]
    /\ last' = NoLast
    /\ UNCHANGED <<rev, dashboard, storage, path, unloading, calls, inflight, loginTimer, cpUser,
                   now, budget>>

updateActivity ==
    /\ rev = "api_ts_2"
    /\ ~unloading
    /\ client' = [client EXCEPT !.lastActivity = now]
    /\ last' = NoLast
    /\ UNCHANGED <<rev, dashboard, storage, path, unloading, calls, inflight, loginTimer, cpUser,
                   now, budget>>

TickSteps == {InactivityThreshold + 1, MaxAge + 1}

Tick(d) ==
    /\ ~unloading
    /\ budget.ticks > 0
    /\ now' = now + d
    /\ budget' = [budget EXCEPT !.ticks = @ - 1]
    /\ last' = NoLast
    /\ UNCHANGED <<rev, dashboard, storage, client, path, unloading, calls, inflight, loginTimer,
                   cpUser>>

Next ==
    \/ Login
    \/ ChangePassword
    \/ \E m \in Methods : Call(m)
    \/ logout
    \/ TimerFires
    \/ \E m \in Methods : \E r \in Responses : Respond(m, r)
    \/ LoginTimeout
    \/ PageLoad
    \/ checkBrowserAlive
    \/ handleActivity
    \/ updateActivity
    \/ \E d \in TickSteps : Tick(d)

Spec == Init /\ [][Next]_vars

----------------------------------------------------------------------------
(* getToken() on its own: every combination of stored token, token_metadata *)
(* and clock it can meet in the second definition                           *)

GetTokenTimes == {0, MaxAgeSecond, MaxAgeSecond + 1}

GetTokenMetadata ==
    {{}} \cup
    {{[parses |-> p, issued |-> i, userAgent |-> ua,
       browserSessionId |-> NoSid]} :
        p \in BOOLEAN, i \in {0, 1}, ua \in UserAgents}

GetTokenStorages ==
    {[EmptyStorage EXCEPT
         !.ss_auth_token = ss, !.ck_auth_token = ck, !.ls_auth_token = ls,
         !.ls_user = u, !.ls_token_metadata = md] :
        ss \in {"", "tok"}, ck \in {"", "tok"}, ls \in {"", "tok"},
        u \in {{}, {[must_change_password |-> FALSE]}},
        md \in GetTokenMetadata}

GetTokenInit ==
    /\ rev = "api_ts_2"
    /\ now \in GetTokenTimes
    /\ budget = [ticks |-> 0]
    /\ storage \in GetTokenStorages
    /\ client = FreshClient
    /\ path = "/dashboard"
    /\ unloading = FALSE
    /\ calls = Idle
    /\ inflight = Zero
    /\ loginTimer = FALSE
    /\ cpUser = {}
    /\ last = NoLast
    /\ dashboard = NoDashboard

\* One call of getToken(): what it returned is kept in last.outcome
CallGetToken ==
    /\ Commit(getToken(World))
    /\ last' = [NoLast EXCEPT
                   !.event = "getToken",
                   !.outcome = getTokenValue(World),
                   !.removed = StoredToken(storage) # ""
                               /\ MetadataRejects(storage)]
    /\ UNCHANGED <<rev, dashboard, calls, inflight, loginTimer, cpUser, now, budget>>

GetTokenNext == CallGetToken

GetTokenSpec == GetTokenInit /\ [][GetTokenNext]_vars

----------------------------------------------------------------------------
\* changePassword() as a function of what the stores hold: the call is made
\* with every combination of token, metadata and user entries.

ChangePasswordStorages ==
    {[EmptyStorage EXCEPT
         !.ss_auth_token = ss, !.ck_auth_token = ck, !.ls_auth_token = ls,
         !.ls_user = u, !.ls_token_metadata = md] :
        ss \in {"", "tok"}, ck \in {"", "tok"}, ls \in {"", "tok"},
        u \in {{}} \cup {{user} : user \in Users},
        md \in {{}, {[parses |-> TRUE, issued |-> 0, userAgent |-> UserAgent,
                      browserSessionId |-> NoSid]}}}

ChangePasswordInit ==
    /\ rev \in {"api_ts_1", "api_ts_2"}
    /\ now = StartTime
    /\ budget = [ticks |-> 0]
    /\ storage \in ChangePasswordStorages
    /\ client = FreshClient
    /\ path = "/change-password"
    /\ unloading = FALSE
    /\ calls = Idle
    /\ inflight = Zero
    /\ loginTimer = FALSE
    /\ cpUser = {}
    /\ last = NoLast
    /\ dashboard = NoDashboard

ChangePasswordNext ==
    \/ ChangePassword
    \/ \E r \in Responses : Respond("changePassword", r)

ChangePasswordSpec == ChangePasswordInit /\ [][ChangePasswordNext]_vars

----------------------------------------------------------------------------
\* One ActivityTracker instance whose callback is the one ApiClient gives it
\* (`this.lastActivity = Date.now()`): start(), stop(), window events and
\* the passing of time, in steps that meet the throttle's boundary.

MaxTrackerTicks == 3

TrackerSteps == {1, ThrottleDelay - 1, ThrottleDelay}

TrackerInit ==
    /\ rev = "api_ts_2"
    /\ now = StartTime
    /\ budget = [ticks |-> MaxTrackerTicks]
    /\ storage = EmptyStorage
    /\ client = [FreshClient EXCEPT !.activityTracker = TRUE]
    /\ path = "/dashboard"
    /\ unloading = FALSE
    /\ calls = Idle
    /\ inflight = Zero
    /\ loginTimer = FALSE
    /\ cpUser = {}
    /\ last = NoLast
    /\ dashboard = NoDashboard

\* stop(): removeEventListener with the handler start() registered
stop(c) == [c EXCEPT !.listeners = 0]

\* start(): addEventListener; registering the same handler again adds nothing
start(c) == [c EXCEPT !.listeners = 1]

TrackerStart ==
    /\ client' = start(client)
    /\ last' = [NoLast EXCEPT !.event = "start"]
    /\ UNCHANGED <<rev, dashboard, storage, path, unloading, calls, inflight, loginTimer,
                   cpUser, now, budget>>

TrackerStop ==
    /\ client' = stop(client)
    /\ last' = [NoLast EXCEPT !.event = "stop"]
    /\ UNCHANGED <<rev, dashboard, storage, path, unloading, calls, inflight, loginTimer,
                   cpUser, now, budget>>

\* One of the six window events is dispatched; last.outcome tells whether a
\* listener heard it and whether handleActivity invoked the callback
DispatchEvent ==
    /\ IF client.listeners > 0 /\ ThrottleOpen(client)
       THEN /\ client' = [client EXCEPT !.lastTrigger = now,
                                        !.lastActivity = now]
            /\ last' = [NoLast EXCEPT !.event = "activity",
                                      !.outcome = "callback"]
       ELSE /\ client' = client
            /\ last' = [NoLast EXCEPT
                           !.event = "activity",
                           !.outcome = IF client.listeners > 0
                                       THEN "throttled" ELSE "unheard"]
    /\ UNCHANGED <<rev, dashboard, storage, path, unloading, calls, inflight, loginTimer,
                   cpUser, now, budget>>

TrackerNext ==
    \/ TrackerStart
    \/ TrackerStop
    \/ DispatchEvent
    \/ \E d \in TrackerSteps : Tick(d)

TrackerSpec == TrackerInit /\ [][TrackerNext]_vars

----------------------------------------------------------------------------
\* The Dashboard page: its mount effect and loadDashboardData(), one load at
\* a time, with every answer the backend can give to each of its requests.

DashboardInit ==
    /\ rev \in Revs
    /\ now = StartTime
    /\ budget = [ticks |-> 0]
    /\ \E s0 \in InitStorages :
          LET w == RunEffects(Constructor([s |-> s0, c |-> FreshClient,
                                           path |-> "/dashboard",
                                           unloading |-> FALSE]))
          IN  /\ storage = w.s
              /\ client = w.c
              /\ path = w.path
    /\ unloading = FALSE
    /\ calls = Idle
    /\ inflight = Zero
    /\ loginTimer = FALSE
    /\ cpUser = {}
    /\ last = NoLast
    /\ dashboard = NoDashboard

\* What the backend can answer to a dashboard request
DashboardResponses ==
    {r \in Responses : ~r.mcp /\ (r.status = 404 => r.detail /\ ~r.error)}

\* The request interceptor's runs for n requests sent one after the other
RECURSIVE Sent(_, _)
Sent(w, n) == IF n = 0 THEN w ELSE RequestInterceptor(Sent(w, n - 1))

Settled200(res) == res.state = "settled" /\ res.status = 200

widgetDataMap_anyData(d) ==
    {wid \in d.widgets : Settled200(d.results[wid])}

\* widgetDataMap: `if (result.data && result.data.success)`; a request the
\* inner catch answered has data null
widgetDataMap(d) ==
    {wid \in d.widgets :
        Settled200(d.results[wid]) /\ d.results[wid].success}

\* After `await Promise.all(widgetDataPromises)`: runs once every widget's
\* promise has settled
afterWidgetData(d) ==
    IF \A wid \in d.widgets : d.results[wid].state = "settled"
    THEN [d EXCEPT !.stage = "loaded", !.widgetData = widgetDataMap(d),
                   !.loading = FALSE]
    ELSE d

\* After the first `await Promise.all`: setMenuItems, setWidgets and one
\* getWidgetData request per widget; a rejection goes to the outer catch
afterLayout(d) ==
    IF d.stage # "layout" THEN d
    ELSE IF \E m \in DOMAIN d.top : d.top[m] = "rejected"
    THEN [d EXCEPT !.stage = "failed", !.loading = FALSE]
    ELSE IF \A m \in DOMAIN d.top : d.top[m] = "resolved"
    THEN afterWidgetData(
             [d EXCEPT !.stage = "widgets", !.widgets = d.layout,
                       !.results = [wid \in WidgetIds |->
                                       IF wid \in d.layout
                                       THEN [NoResult EXCEPT
                                                !.state = "pending"]
                                       ELSE NoResult]])
    ELSE d

\* The mount effect: to /login when not authenticated, else
\* loadDashboardData() up to its first await
loadDashboardData ==
    /\ ~unloading
    /\ path = "/dashboard"
    /\ dashboard.stage \in {"idle", "loaded", "failed"}
    /\ \A m \in DOMAIN dashboard.top : dashboard.top[m] # "pending"
    /\ IF ~isAuthenticated(World)
       THEN /\ Commit(Navigate(getToken(World), "/login"))
            /\ UNCHANGED dashboard
       ELSE /\ Commit(Sent(World, 2))
            /\ dashboard' = [dashboard EXCEPT
                                !.stage = "layout", !.loading = TRUE,
                                !.layout = {},
                                !.top = [m \in DOMAIN @ |-> "pending"]]
    /\ last' = [NoLast EXCEPT !.event = "load"]
    /\ UNCHANGED <<rev, calls, inflight, loginTimer, cpUser, now, budget>>

\* The answer to getMenuItems or getDashboardLayout (ws: the widgets the
\* layout lists)
LayoutResponds(m, r, ws) ==
    /\ dashboard.top[m] = "pending"
    /\ m = "getMenuItems" \/ r.status # 200 => ws = {}
    /\ LET i == ResponseInterceptor(World, m, r)
           d1 == [dashboard EXCEPT
                     !.top[m] = CASE i.outcome = "resolve" -> "resolved"
                                  [] i.outcome = "reject" -> "rejected"
                                  [] OTHER -> "hung",
                     !.layout = IF m = "getDashboardLayout" THEN ws ELSE @]
           d2 == afterLayout(d1)
       IN  /\ Commit(IF d2.stage = "widgets" /\ dashboard.stage = "layout"
                     THEN Sent(i.w, Cardinality(d2.widgets))
                     ELSE i.w)
           /\ dashboard' = d2
           /\ last' = [NoLast EXCEPT !.event = "respond", !.url = Url(m),
                                     !.status = r.status,
                                     !.outcome = i.outcome]
    /\ UNCHANGED <<rev, calls, inflight, loginTimer, cpUser, now, budget>>

\* The answer to one widget's getWidgetData: resolved with the body,
\* answered with data null by the inner catch, or never settled
WidgetResponds(wid, r) ==
    /\ dashboard.stage = "widgets"
    /\ wid \in dashboard.widgets
    /\ dashboard.results[wid].state = "pending"
    /\ LET i == ResponseInterceptor(World, "getWidgetData", r)
           res == [state |-> IF i.outcome = "hang" THEN "hung" ELSE "settled",
                   status |-> r.status, success |-> r.success]
       IN  /\ Commit(i.w)
           /\ dashboard' = afterWidgetData(
                               [dashboard EXCEPT !.results[wid] = res])
           /\ last' = [NoLast EXCEPT !.event = "respond",
                                     !.url = Url("getWidgetData"),
                                     !.status = r.status,
                                     !.success = r.success,
                                     !.outcome = i.outcome]
    /\ UNCHANGED <<rev, calls, inflight, loginTimer, cpUser, now, budget>>

DashboardNext ==
    \/ loadDashboardData
    \/ \E m \in {"getMenuItems", "getDashboardLayout"},
          r \in DashboardResponses, ws \in SUBSET WidgetIds :
            LayoutResponds(m, r, ws)
    \/ \E wid \in WidgetIds, r \in DashboardResponses : WidgetResponds(wid, r)

DashboardSpec == DashboardInit /\ [][DashboardNext]_vars

----------------------------------------------------------------------------
(* Claims *)

\* The URLs whose 401 the interceptor hands back untouched
ExemptUrl(url) ==
    \/ url = "/auth/login"
    \/ rev = "part_005" /\ url = "/auth/change-password"

C2_AsStated ==
    last.event = "respond" /\ last.status >= 400 /\ last.status # 401
        => last.toasts = 1 /\ last.outcome = "reject"

\* C2, amended: a 5xx raises exactly one toast; a 4xx other than 401 raises
\* one exactly when the body has `error` and no `detail`, and none otherwise;
\* either way the error is rejected to the caller.
C2_Toasts ==
    last.event = "respond" /\ last.status >= 400 /\ last.status # 401
        => /\ last.outcome = "reject"
           /\ last.toasts =
                 IF last.status >= 500 \/ (last.error /\ ~last.detail)
                 THEN 1 ELSE 0

C2_Witness ==
    /\ last.event = "respond" /\ last.status = 404
    /\ last.detail /\ last.error
    /\ last.toasts = 0 /\ last.outcome = "reject"

\* C3: at most one POST /auth/refresh is in flight for one ApiClient
\* instance; a refreshToken() called while one is pending sends nothing.
C3_OneRefresh == inflight["refreshToken"] <= 1

C3_Witness ==
    /\ last.event = "timer" /\ last.timer = "skip"
    /\ inflight["refreshToken"] = 1

\* removeToken ran in the step that led to this state
RanRemoveToken(l) ==
    \/ l.removed
    \/ l.event = "respond" /\ l.url = "/auth/refresh" /\ l.outcome = "reject"

C5_NoRetry ==
    [][last'.event = "respond" /\ last'.status # 200 =>
          /\ \A m \in Methods : inflight'[m] <= inflight[m]
          /\ last'.url = "/auth/refresh" =>
                /\ Cleaned(storage') /\ path' = "/login" /\ unloading'
                /\ client'.timers = 0
                /\ inflight'["refreshToken"] = 0
      ]_vars

C5_Witness ==
    /\ last.event = "respond" /\ last.url = "/auth/refresh"
    /\ last.status = 500 /\ last.outcome = "reject"
    /\ Cleaned(storage) /\ path = "/login" /\ client.timers = 0
    /\ inflight["refreshToken"] = 0

C7_FlagCleared ==
    (/\ last.event = "respond" /\ last.url = "/auth/change-password"
     /\ last.status = 200 /\ last.success /\ last.settled = "resolved")
        => \A user \in getUser(storage) : ~user.must_change_password

\* C8: login() settles for every outcome of its request: a login still
\* pending has its request in flight or its timeout promise to come.
C8_LoginSettles ==
    calls["login"] = "pending" => inflight["login"] > 0 \/ loginTimer

\* C9, as stated: a 401 on any URL other than /auth/login is answered with a
\* promise that never settles.
C9_AsStated ==
    last.event = "respond" /\ last.status = 401 /\ last.url # "/auth/login"
        => last.outcome = "hang" /\ last.settled = "pending"

\* The promise of method m hangs: pending with no request behind it
Hung(m) == calls[m] = "pending" /\ inflight[m] = 0

\* C9, amended: a 401 on a URL other than /auth/login (and, in part_005,
\* other than /auth/change-password) is answered with a promise that never
\* settles: the method's promise stays pending for as long as the document
\* lives.
C9_Halts ==
    [][/\ (last'.event = "respond" /\ last'.status = 401
           /\ ~ExemptUrl(last'.url))
             => last'.outcome = "hang" /\ last'.settled = "pending"
       /\ \A m \in Methods \ {"login"} :
             Hung(m) => calls'[m] = "pending" \/ last'.event = "load"
      ]_vars

C9_Witness ==
    /\ last.event = "respond" /\ last.status = 401
    /\ last.url = "/api/menu" /\ last.outcome = "hang"
    /\ Hung("getMenuItems")

\* C10: isRefreshing is released after every outcome of POST /auth/refresh:
\* it is set only while the refresh request is in flight.
C10_GuardReleased ==
    inflight["refreshToken"] = 0 => ~client.isRefreshing

\* C11, as stated (second definition): a timer expiry more than 10 minutes
\* after the last recorded activity sends no refresh and schedules the next
\* check; one at most 10 minutes after it calls refreshToken().
C11_AsStated ==
    [][rev = "api_ts_2" /\ last'.event = "timer" =>
          IF now - client.lastActivity > InactivityThreshold
          THEN /\ last'.timer = "recheck"
               /\ inflight' = inflight
               /\ client'.timers > 0
          ELSE last'.timer \in {"refresh", "skip"}
      ]_vars

\* C11, amended (second definition): a timer expiry more than 10 minutes
\* after the last recorded activity sends no refresh; it schedules the next
\* check when getToken still accepts the stored token, and otherwise removes
\* the token and schedules nothing.  An expiry at most 10 minutes after the
\* last activity calls refreshToken(), which posts /auth/refresh unless a
\* refresh is under way.
C11_InactivityCheck ==
    [][rev = "api_ts_2" /\ last'.event = "timer" =>
          IF now - client.lastActivity > InactivityThreshold
          THEN /\ last'.timer = "recheck"
               /\ inflight' = inflight
               /\ IF isAuthenticated(World)
                  THEN client'.timers > 0 /\ storage' = storage
                  ELSE client'.timers = 0 /\ StoredToken(storage') = ""
          ELSE IF client.isRefreshing
               THEN last'.timer = "skip" /\ inflight' = inflight
               ELSE /\ last'.timer = "refresh"
                    /\ inflight'["refreshToken"] =
                          inflight["refreshToken"] + 1
      ]_vars

\* An inactive user's check found the token still valid and re-armed
C11_Witness ==
    /\ rev = "api_ts_2"
    /\ last.event = "timer" /\ last.timer = "recheck"
    /\ now - client.lastActivity > InactivityThreshold
    /\ isAuthenticated(World) /\ client.timers > 0
    /\ inflight["refreshToken"] = 0

\* C12 (second definition): an ApiClient instance has at most one pending
\* refresh timer and at most one ActivityTracker with registered listeners,
\* and they are the ones its refreshTimer and activityTracker fields hold.
C12_OneTimerOneTracker ==
    rev = "api_ts_2" =>
        /\ client.timers <= 1
        /\ client.listeners <= 1
        /\ client.timers = 1 => client.refreshTimer = "pending"
        /\ client.listeners = 1 <=> client.activityTracker

\* setupTokenRefresh ran from the expired timer's callback with a tracker
\* started: one timer and one tracker are left
C12_Witness ==
    /\ rev = "api_ts_2"
    /\ last.event = "timer" /\ last.timer = "recheck"
    /\ client.refreshTimer = "pending" /\ client.timers = 1
    /\ client.activityTracker /\ client.listeners = 1

C14_LoginStores ==
    [][(/\ rev = "api_ts_2"
        /\ last'.event = "respond" /\ last'.url = "/auth/login"
        /\ last'.settled = "resolved") =>
          /\ storage'.ss_auth_token = "tok"
          /\ storage'.ls_auth_token = "tok"
          /\ storage'.ck_auth_token = "tok"
          /\ \E md \in storage'.ls_token_metadata :
                md.issued = now /\ md.userAgent = UserAgent
          /\ client'.timers = 1 /\ client'.refreshTimer = "pending"
          /\ \E user \in storage'.ls_user :
                IF user.must_change_password
                THEN path' = "/change-password" /\ unloading'
                ELSE path' = path /\ unloading' = unloading
      ]_vars

\* login() resolved for a user who must change the password
C14_Witness ==
    /\ rev = "api_ts_2"
    /\ last.event = "respond" /\ last.url = "/auth/login"
    /\ last.settled = "resolved"
    /\ storage.ss_auth_token = "tok" /\ storage.ck_auth_token = "tok"
    /\ \E user \in storage.ls_user : user.must_change_password
    /\ path = "/change-password" /\ unloading
    /\ client.timers = 1

C16_FlaggedUserRoute ==
    (/\ rev = "api_ts_2" /\ ~unloading
     /\ StoredToken(storage) # "" /\ ~MetadataRejects(storage)
     /\ \E user \in getUser(storage) : user.must_change_password)
        => path = "/change-password"

C18_Throttle ==
    [][/\ last'.event = "activity" =>
             /\ (last'.outcome = "callback" /\ client.lastTrigger # 0)
                   => now - client.lastActivity > ThrottleDelay
             /\ client.listeners = 0
                   => last'.outcome = "unheard" /\ client' = client
       /\ last'.event = "stop" => client'.listeners = 0
      ]_vars

\* An event exactly 30 000 ms after the previous invocation was throttled
C18_Witness ==
    /\ last.event = "activity" /\ last.outcome = "throttled"
    /\ client.lastTrigger # 0
    /\ now - client.lastActivity = ThrottleDelay

\* C19: a load of the dashboard whose getWidgetData requests have all been
\* answered, none with 401, ends with loading = false and with widgetData
\* holding exactly the widgets answered 200 with success = true, whatever
\* error or success = false the other widgets got; and the load does not
\* stay waiting once every widget has been answered.
C19_WidgetIsolation ==
    /\ dashboard.stage = "loaded" =>
          /\ ~dashboard.loading
          /\ \A wid \in dashboard.widgets :
                /\ dashboard.results[wid].state = "settled"
                /\ dashboard.results[wid].status # 401
                /\ wid \in dashboard.widgetData
                      <=> /\ dashboard.results[wid].status = 200
                          /\ dashboard.results[wid].success
          /\ dashboard.widgetData \subseteq dashboard.widgets
    /\ dashboard.stage = "widgets" =>
          \E wid \in dashboard.widgets :
             \/ dashboard.results[wid].state = "pending"
             \/ dashboard.results[wid].status = 401

\* One widget failed with a 500 and the data of another, answered 200 with
\* success = true, was stored all the same
C19_Witness ==
    /\ dashboard.stage = "loaded" /\ ~dashboard.loading
    /\ \E a, b \in dashboard.widgets :
          /\ dashboard.results[a].status = 500
          /\ dashboard.results[b].status = 200
          /\ dashboard.results[b].success
          /\ dashboard.widgetData = {b}

====
